---- MODULE Spec2Model ----
(***************************************************************************)
(* Model of rconfig (src/src/lib.rs): the memoized provider of the         *)
(* `R CMD config --all` table (build_r_cmd_configs), its line parser, and   *)
(* the linker-flag splitter (get_libs_and_paths).                          *)
(*                                                                         *)
(* Text is a sequence of one-character strings.  Four specifications       *)
(* share the variables:                                                    *)
(*   SpecParse  the parsing loop of build_r_cmd_configs, one line a step,  *)
(*              over every decoded text of at most MaxLen characters;      *)
(*   SpecFlags  get_libs_and_paths over every bounded list of strings;     *)
(*   Spec       concurrent callers of build_r_cmd_configs;                 *)
(*   SpecSeq    the same callers, one call at a time.                      *)
(***************************************************************************)
EXTENDS Integers, Sequences, FiniteSets, TLC

\* ------------------------------------------------------------------ bounds
MaxLen == 5
MaxFlagLen == 6
MaxStrings == 2
NumThreads == 2
MaxCalls == 2

\* -------------------------------------------------------------- characters
NL == "\n"
CR == "\r"
SP == " "
EQ == "="
HASH == "#"
\* U+FFFD, what to_string_lossy puts in place of a byte that is not UTF-8
REPLACEMENT == "?"
\* a byte that is not valid UTF-8 (0xFF)
BADBYTE == "xFF"

TextChars == {"a", EQ, HASH, SP, NL, CR}
FlagChars == {"-", "L", "l", SP}

\* char::is_whitespace, restricted to the characters of the model
is_whitespace(c) == c \in {SP, NL, CR, "\t"}

\* all sequences over S of length at most n
SeqsUpTo(S, n) == UNION {[1..k -> S] : k \in 0..n}

\* ---------------------------------------------------------- str primitives
\* position of the first element of s equal to c, 0 when there is none
RECURSIVE IndexFrom(_, _, _)
IndexFrom(s, c, i) ==
    IF i > Len(s) THEN 0
    ELSE IF s[i] = c THEN i
    ELSE IndexFrom(s, c, i + 1)

Drop(s, n) == SubSeq(s, n + 1, Len(s))
Take(s, n) == SubSeq(s, 1, n)

\* str::starts_with
starts_with(s, p) == Len(s) >= Len(p) /\ Take(s, Len(p)) = p

\* one item of str::lines: a trailing "\n" is removed, then a "\r" before it
StripLineEnding(l) ==
    IF Len(l) > 0 /\ l[Len(l)] = NL
    THEN LET m == Take(l, Len(l) - 1)
         IN  IF Len(m) > 0 /\ m[Len(m)] = CR THEN Take(m, Len(m) - 1) ELSE m
    ELSE l

\* str::lines: split_inclusive('\n'), each piece without its line ending;
\* the empty text has no line, a final "\n" opens no further line
RECURSIVE lines(_)
lines(s) ==
    IF s = <<>> THEN <<>>
    ELSE LET i == IndexFrom(s, NL, 1)
         IN  IF i = 0 THEN <<StripLineEnding(s)>>
             ELSE <<StripLineEnding(Take(s, i))>> \o lines(Drop(s, i))

\* str::split(c): the segments between occurrences of c (always >= 1)
RECURSIVE split(_, _)
split(s, c) ==
    LET i == IndexFrom(s, c, 1)
    IN  IF i = 0 THEN <<s>>
        ELSE <<Take(s, i - 1)>> \o split(Drop(s, i), c)

RECURSIVE trim_start(_)
trim_start(s) ==
    IF s # <<>> /\ is_whitespace(s[1]) THEN trim_start(Tail(s)) ELSE s

RECURSIVE trim_end(_)
trim_end(s) ==
    IF s # <<>> /\ is_whitespace(s[Len(s)])
    THEN trim_end(Take(s, Len(s) - 1)) ELSE s

\* variant: only the leading whitespace is removed
trim_start_only(s) == trim_start(s)

\* str::trim
trim(s) == trim_end(trim_start(s))

\* ------------------------------------------------------- ConfigVariables
\* HashMap<String, String>: a function whose domain is the set of keys
EmptyMap == << >>

\* variant: a present key keeps its first value
insert_keep_first(m, k, v) ==
    [x \in (DOMAIN m) \cup {k} |-> IF x \in DOMAIN m THEN m[x] ELSE v]

\* HashMap::insert: a present key is overwritten
insert(m, k, v) ==
    [x \in (DOMAIN m) \cup {k} |-> IF x = k THEN v ELSE m[x]]

None == [some |-> FALSE]
Some(v) == [some |-> TRUE, val |-> v]

\* ConfigVariables::get
get(m, k) == IF k \in DOMAIN m THEN Some(m[k]) ELSE None

\* --------------------------------------- the loop of build_r_cmd_configs
\* variant: a ## line is skipped and the loop goes on
LoopBody_no_break(m, line) ==
    LET parts == [i \in DOMAIN split(line, EQ) |-> trim(split(line, EQ)[i])]
    IN  IF ~starts_with(line, <<HASH, HASH>>) /\ Len(parts) = 2
        THEN [brk |-> FALSE, map |-> insert(m, parts[1], parts[2])]
        ELSE [brk |-> FALSE, map |-> m]

\* variant: a line with several `=` is accepted, its first two segments taken
LoopBody_two_or_more(m, line) ==
    IF starts_with(line, <<HASH, HASH>>)
    THEN [brk |-> TRUE, map |-> m]
    ELSE LET parts == [i \in DOMAIN split(line, EQ) |-> trim(split(line, EQ)[i])]
         IN  IF Len(parts) >= 2
             THEN [brk |-> FALSE, map |-> insert(m, parts[1], parts[2])]
             ELSE [brk |-> FALSE, map |-> m]

\* one pass of the body of `for line in input.lines()`: brk is the break
LoopBody(m, line) ==
    IF starts_with(line, <<HASH, HASH>>)
    THEN [brk |-> TRUE, map |-> m]
    ELSE LET parts == [i \in DOMAIN split(line, EQ) |-> trim(split(line, EQ)[i])]
         IN  IF Len(parts) = 2
             THEN [brk |-> FALSE, map |-> insert(m, parts[1], parts[2])]
             ELSE [brk |-> FALSE, map |-> m]

\* the whole loop over a sequence of lines, from the map m
RECURSIVE ParseLines(_, _)
ParseLines(m, ls) ==
    IF ls = <<>> THEN m
    ELSE LET r == LoopBody(m, Head(ls))
         IN  IF r.brk THEN r.map ELSE ParseLines(r.map, Tail(ls))

\* the Ok arm of the match: the table of a decoded text
ParseConfig(text) == ParseLines(EmptyMap, lines(text))

\* ---------------------------------------------------- get_libs_and_paths
\* str::split_whitespace: the maximal runs of non-whitespace characters
RECURSIVE split_whitespace(_)
split_whitespace(s) ==
    LET t == trim_start(s)
        RECURSIVE WordLen(_)
        WordLen(i) == IF i > Len(t) \/ is_whitespace(t[i]) THEN i - 1
                      ELSE WordLen(i + 1)
    IN  IF t = <<>> THEN <<>>
        ELSE <<Take(t, WordLen(1))>> \o split_whitespace(Drop(t, WordLen(1)))

\* variant: the remainder is taken from the second character on
PushPart_from_second(acc, part) ==
    IF starts_with(part, <<"-", "L">>)
    THEN [acc EXCEPT !.paths = Append(@, Drop(part, 1))]
    ELSE IF starts_with(part, <<"-", "l">>)
    THEN [acc EXCEPT !.libs = Append(@, Drop(part, 1))]
    ELSE acc

\* the body of `for part in parts`
PushPart(acc, part) ==
    IF starts_with(part, <<"-", "L">>)
    THEN [acc EXCEPT !.paths = Append(@, Drop(part, 2))]
    ELSE IF starts_with(part, <<"-", "l">>)
    THEN [acc EXCEPT !.libs = Append(@, Drop(part, 2))]
    ELSE acc

\* `for part in parts { ... }`
RECURSIVE ForParts(_, _)
ForParts(acc, parts) ==
    IF parts = <<>> THEN acc
    ELSE ForParts(PushPart(acc, Head(parts)), Tail(parts))

\* `for s in &strings { ... }`
RECURSIVE ForStrings(_, _)
ForStrings(acc, ss) ==
    IF ss = <<>> THEN acc
    ELSE ForStrings(ForParts(acc, split_whitespace(Head(ss))), Tail(ss))

get_libs_and_paths(ss) == ForStrings([paths |-> <<>>, libs |-> <<>>], ss)

\* the ways to cut a text of length len into n consecutive strings
Cuts(len, n) ==
    IF n = 0 THEN (IF len = 0 THEN {<< >>} ELSE {})
    ELSE {c \in [1..(n - 1) -> 0..len] :
             \A i \in 1..(n - 2) : c[i] <= c[i + 1]}

CutAt(t, n, c) ==
    [i \in 1..n |-> SubSeq(t, (IF i = 1 THEN 0 ELSE c[i - 1]) + 1,
                              IF i = n THEN Len(t) ELSE c[i])]

\* ------------------------------------------------------------ r_cmd_config
\* what Command::output() can give: the launch fails with an io::Error, or
\* the child ran and left an exit status and the bytes of its two streams
StdoutSamples ==
    { << >>,
      <<"a", EQ, "a", NL>>,
      <<"a", SP, EQ, HASH, NL, HASH, HASH, NL, HASH, EQ, "a">>,
      <<BADBYTE, EQ, "a">> }
StderrSamples == { << >>, <<"w", BADBYTE>> }
ExitCodes == {0, 1}

LaunchError == [launched |-> FALSE, status |-> 0, stdout |-> << >>, stderr |-> << >>]
Outcomes ==
    {LaunchError} \cup
    [launched : {TRUE}, status : ExitCodes, stdout : StdoutSamples,
     stderr : StderrSamples]
\* no Command::output() result is held
NoOutcome == [launched |-> FALSE, status |-> -1, stdout |-> << >>, stderr |-> << >>]

\* byte_array_to_os_string, target_family = "unix": OsStr::from_bytes keeps
\* the bytes as they are
byte_array_to_os_string(bytes) == bytes

\* OsStr::to_string_lossy: a byte that is not UTF-8 becomes U+FFFD
to_string_lossy(os) ==
    [i \in DOMAIN os |-> IF os[i] = BADBYTE THEN REPLACEMENT ELSE os[i]]

\* variant: a non-zero exit status is turned into an error
r_cmd_config_checks_status(o) ==
    IF ~o.launched \/ o.status # 0
    THEN [ok |-> FALSE, text |-> << >>,
          diag |-> IF o.launched /\ o.stderr # << >>
                   THEN << <<">", SP>> \o to_string_lossy(byte_array_to_os_string(o.stderr)) >>
                   ELSE << >>]
    ELSE [ok |-> TRUE, text |-> byte_array_to_os_string(o.stdout),
          diag |-> IF o.stderr # << >>
                   THEN << <<">", SP>> \o to_string_lossy(byte_array_to_os_string(o.stderr)) >>
                   ELSE << >>]

\* variant: output on the error stream is turned into an error
r_cmd_config_stderr_fails(o) ==
    IF ~o.launched THEN [ok |-> FALSE, text |-> << >>, diag |-> << >>]
    ELSE IF o.stderr # << >>
    THEN [ok |-> FALSE, text |-> << >>,
          diag |-> << <<">", SP>> \o to_string_lossy(byte_array_to_os_string(o.stderr)) >>]
    ELSE [ok |-> TRUE, text |-> byte_array_to_os_string(o.stdout), diag |-> << >>]

\* r_cmd_config on the outcome o of Command::output(): `?` returns the
\* io::Error; otherwise the lines printed (diag) and Ok(stdout as OsString).
\* out.status is not read.
r_cmd_config(o) ==
    IF ~o.launched THEN [ok |-> FALSE, text |-> << >>, diag |-> << >>]
    ELSE [ok |-> TRUE,
          text |-> byte_array_to_os_string(o.stdout),
          diag |-> IF o.stderr # << >>
                   THEN << <<">", SP>> \o to_string_lossy(byte_array_to_os_string(o.stderr)) >>
                   ELSE << >>]

\* variant: a failed invocation leaves a default entry in the map
build_map_with_default(r) ==
    IF r.ok THEN ParseConfig(to_string_lossy(r.text))
    ELSE insert(EmptyMap, <<"a">>, <<"a">>)

\* the `match r_configs` of build_r_cmd_configs: the map the call returns
build_map(r) ==
    IF r.ok THEN ParseConfig(to_string_lossy(r.text)) ELSE EmptyMap

\* --------------------------------------------------------------- #[once]
\* The expansion of cached's #[once] without sync_writes keeps an
\* RwLock<Option<ConfigVariables>>: a call takes the read lock and returns a
\* clone of the cached value if there is one; otherwise it releases the lock,
\* runs the function body, then takes the write lock and stores the result.

\* variant: the result is not stored
once_write_skipped(c, v) == c

\* the write of the result under the write lock
once_write(c, v) == Some(v)

Threads == 1..NumThreads

VARIABLES
    cache,            \* the Option behind the RwLock of #[once]
    pc,               \* per caller: "idle" | "invoke" | "print" | "match" |
                      \*             "store" | "returned"
    calls,            \* per caller: calls started
    out,              \* per caller: the result of Command::output()
    printed,          \* per caller: lines this call printed
    r_map,            \* per caller: the map this call built
    ret,              \* per caller: the table the call returned
    launches,         \* Command::output() calls made by the process
    parses,           \* times the Ok arm parsed an output
    first_ret,        \* history: the table the first completed call returned
    strings,          \* SpecFlags: the argument of get_libs_and_paths
    paths,            \* SpecFlags: first component of the result
    libs,             \* SpecFlags: second component of the result
    fpc,              \* SpecFlags: "call" | "done"
    input,            \* SpecParse: the decoded text being parsed
    rest,             \* SpecParse: the lines the iterator has not yielded yet
    rcmd_config_map,  \* SpecParse: the map under construction
    ppc               \* SpecParse: "loop" | "break" | "done"

parseVars == <<input, rest, rcmd_config_map, ppc>>
flagVars == <<strings, paths, libs, fpc>>
provVars == <<cache, pc, calls, out, printed, r_map, ret, launches, parses,
              first_ret>>
vars == <<parseVars, flagVars, provVars>>

\* the variables of the other specifications stay at these values
ParseIdle ==
    /\ input = <<>> /\ rest = <<>> /\ rcmd_config_map = EmptyMap /\ ppc = "idle"
FlagsIdle ==
    /\ strings = <<>> /\ paths = <<>> /\ libs = <<>> /\ fpc = "idle"
ProvStart ==
    /\ cache = None
    /\ pc = [t \in Threads |-> "idle"]
    /\ calls = [t \in Threads |-> 0]
    /\ out = [t \in Threads |-> NoOutcome]
    /\ printed = [t \in Threads |-> << >>]
    /\ r_map = [t \in Threads |-> EmptyMap]
    /\ ret = [t \in Threads |-> EmptyMap]
    /\ launches = 0
    /\ parses = 0
    /\ first_ret = None

ParseInit ==
    /\ input \in SeqsUpTo(TextChars, MaxLen)
    /\ rest = lines(input)
    /\ rcmd_config_map = EmptyMap
    /\ ppc = "loop"
    /\ FlagsIdle
    /\ ProvStart

\* the iterator yields a line starting with ## : break
LineBreak ==
    /\ ppc = "loop" /\ rest # <<>>
    /\ LoopBody(rcmd_config_map, Head(rest)).brk
    /\ ppc' = "break"
    /\ rest' = Tail(rest)
    /\ rcmd_config_map' = LoopBody(rcmd_config_map, Head(rest)).map
    /\ UNCHANGED <<input, flagVars, provVars>>

\* the iterator yields any other line: insert or drop, then go on
LineStep ==
    /\ ppc = "loop" /\ rest # <<>>
    /\ ~LoopBody(rcmd_config_map, Head(rest)).brk
    /\ rcmd_config_map' = LoopBody(rcmd_config_map, Head(rest)).map
    /\ rest' = Tail(rest)
    /\ UNCHANGED <<input, ppc, flagVars, provVars>>

\* the iterator is exhausted
LoopEnd ==
    /\ ppc = "loop" /\ rest = <<>>
    /\ ppc' = "done"
    /\ UNCHANGED <<input, rest, rcmd_config_map, flagVars, provVars>>

ParseNext == LineBreak \/ LineStep \/ LoopEnd

SpecParse == ParseInit /\ [][ParseNext]_vars

\* ------------------------------------------------------------- SpecFlags
\* every list of at most MaxStrings strings of MaxFlagLen characters in all
FlagsInit ==
    /\ \E t \in SeqsUpTo(FlagChars, MaxFlagLen), n \in 0..MaxStrings :
          \E c \in Cuts(Len(t), n) : strings = CutAt(t, n, c)
    /\ paths = <<>> /\ libs = <<>>
    /\ fpc = "call"
    /\ ParseIdle
    /\ ProvStart

\* one call of get_libs_and_paths(strings)
SplitFlags ==
    /\ fpc = "call"
    /\ paths' = get_libs_and_paths(strings).paths
    /\ libs' = get_libs_and_paths(strings).libs
    /\ fpc' = "done"
    /\ UNCHANGED <<strings, parseVars, provVars>>

FlagsNext == SplitFlags

SpecFlags == FlagsInit /\ [][FlagsNext]_vars

\* ------------------------------------------------- Spec and SpecSeq
Init == ProvStart /\ ParseIdle /\ FlagsIdle

\* a call begins and finds a cached value under the read lock: it returns a
\* clone of it
CacheHit(t) ==
    /\ pc[t] = "idle" /\ calls[t] < MaxCalls
    /\ cache.some
    /\ calls' = [calls EXCEPT ![t] = @ + 1]
    /\ ret' = [ret EXCEPT ![t] = cache.val]
    /\ pc' = [pc EXCEPT ![t] = "returned"]
    /\ first_ret' = IF first_ret.some THEN first_ret ELSE Some(cache.val)
    /\ UNCHANGED <<cache, out, printed, r_map, launches, parses,
                   parseVars, flagVars>>

\* a call begins and finds no cached value: it releases the read lock and
\* goes on to run the function body
CacheMiss(t) ==
    /\ pc[t] = "idle" /\ calls[t] < MaxCalls
    /\ ~cache.some
    /\ calls' = [calls EXCEPT ![t] = @ + 1]
    /\ pc' = [pc EXCEPT ![t] = "invoke"]
    /\ UNCHANGED <<cache, out, printed, r_map, ret, launches, parses,
                   first_ret, parseVars, flagVars>>

\* Command::new("R").args(..).output(): blocks until the child has exited
\* or the launch has failed; `?` skips the rest of r_cmd_config on failure
Invoke(t) ==
    /\ pc[t] = "invoke"
    /\ \E o \in Outcomes :
          /\ out' = [out EXCEPT ![t] = o]
          /\ pc' = [pc EXCEPT ![t] = IF o.launched THEN "print" ELSE "match"]
    /\ launches' = launches + 1
    /\ UNCHANGED <<cache, calls, printed, r_map, ret, parses, first_ret,
                   parseVars, flagVars>>

\* the rest of r_cmd_config: print the error stream if it is not empty
PrintDiag(t) ==
    /\ pc[t] = "print"
    /\ printed' = [printed EXCEPT ![t] = r_cmd_config(out[t]).diag]
    /\ pc' = [pc EXCEPT ![t] = "match"]
    /\ UNCHANGED <<cache, calls, out, r_map, ret, launches, parses, first_ret,
                   parseVars, flagVars>>

\* `match r_configs`: parse on Ok, nothing on Err
Match(t) ==
    /\ pc[t] = "match"
    /\ r_map' = [r_map EXCEPT ![t] = build_map(r_cmd_config(out[t]))]
    /\ parses' = IF r_cmd_config(out[t]).ok THEN parses + 1 ELSE parses
    /\ pc' = [pc EXCEPT ![t] = "store"]
    /\ UNCHANGED <<cache, calls, out, printed, ret, launches, first_ret,
                   parseVars, flagVars>>

\* the body has returned: store the result under the write lock, return it
Store(t) ==
    /\ pc[t] = "store"
    /\ cache' = once_write(cache, r_map[t])
    /\ ret' = [ret EXCEPT ![t] = r_map[t]]
    /\ pc' = [pc EXCEPT ![t] = "returned"]
    /\ first_ret' = IF first_ret.some THEN first_ret ELSE Some(r_map[t])
    /\ UNCHANGED <<calls, out, printed, r_map, launches, parses,
                   parseVars, flagVars>>

\* the caller has its table; the locals of the call are gone
Return(t) ==
    /\ pc[t] = "returned"
    /\ pc' = [pc EXCEPT ![t] = "idle"]
    /\ out' = [out EXCEPT ![t] = NoOutcome]
    /\ printed' = [printed EXCEPT ![t] = << >>]
    /\ r_map' = [r_map EXCEPT ![t] = EmptyMap]
    /\ ret' = [ret EXCEPT ![t] = EmptyMap]
    /\ UNCHANGED <<cache, calls, launches, parses, first_ret,
                   parseVars, flagVars>>

Step(t) ==
    \/ CacheHit(t) \/ CacheMiss(t) \/ Invoke(t) \/ PrintDiag(t)
    \/ Match(t) \/ Store(t) \/ Return(t)

\* callers on any number of threads
Next == \E t \in Threads : Step(t)
Spec == Init /\ [][Next]_vars

\* one call after another: a call begins only when no other is under way
NextSeq == \E t \in Threads : (\A u \in Threads \ {t} : pc[u] = "idle") /\ Step(t)
SpecSeq == Init /\ [][NextSeq]_vars

\* ------------------------------------------------- parser claims (SpecParse)
AllLines == lines(input)

\* number of `=` characters of a line
CountEq(line) == Cardinality({i \in 1..Len(line) : line[i] = EQ})

\* s from its first to its last character that is not whitespace
Stripped(s) ==
    LET B == {i \in 1..Len(s) : s[i] \notin {SP, CR, NL}}
    IN  IF B = {} THEN << >>
        ELSE SubSeq(s, CHOOSE i \in B : \A j \in B : i <= j,
                       CHOOSE i \in B : \A j \in B : j <= i)

\* the text before, and after, the first `=` of a line, whitespace-trimmed
KeyOf(line) == Stripped(Take(line, IndexFrom(line, EQ, 1) - 1))
ValOf(line) == Stripped(Drop(line, IndexFrom(line, EQ, 1)))

IsComment(line) == Len(line) >= 2 /\ line[1] = HASH /\ line[2] = HASH

MinOf(S) == CHOOSE x \in S : \A y \in S : x <= y
MaxOf(S) == CHOOSE x \in S : \A y \in S : y <= x

\* position of the first line beginning with ##, 0 when there is none
FirstComment ==
    LET C == {i \in 1..Len(AllLines) : IsComment(AllLines[i])}
    IN  IF C = {} THEN 0 ELSE MinOf(C)

\* number of lines before the comment boundary
Boundary == IF FirstComment = 0 THEN Len(AllLines) ELSE FirstComment - 1

\* positions, among the first n lines, of the lines with exactly one `=`
Pairs(n) == {i \in 1..n : CountEq(AllLines[i]) = 1}

\* the table the first n lines describe: each key of a one-`=` line, with the
\* value of the last such line carrying it
TableOf(n) ==
    [k \in {KeyOf(AllLines[i]) : i \in Pairs(n)} |->
        ValOf(AllLines[MaxOf({i \in Pairs(n) : KeyOf(AllLines[i]) = k})])]

\* C3: when the text has a line beginning with ##, the loop stops at the first
\* such line (position i) and the table is exactly the table of the lines
\* before position i: no line at position >= i contributes anything.
C3_CommentBoundaryCutsTable ==
    (ppc # "loop" /\ FirstComment # 0) =>
        /\ ppc = "break"
        /\ Len(rest) = Len(AllLines) - FirstComment
        /\ rcmd_config_map = TableOf(FirstComment - 1)

\* the loop broke at a ## line and a well-formed line after it is not in the
\* table
C3_Witness ==
    /\ ppc = "break"
    /\ FirstComment # 0
    /\ \E j \in (FirstComment + 1)..Len(AllLines) :
          /\ CountEq(AllLines[j]) = 1
          /\ KeyOf(AllLines[j]) \notin DOMAIN rcmd_config_map

\* C4 as stated: without a ## line, every line with exactly one `=` is in
\* the table with its own trimmed key and its own trimmed value.
C4_EveryPairLineLooksUpItsOwnValue ==
    (ppc = "done" /\ FirstComment = 0) =>
        \A i \in Pairs(Len(AllLines)) :
            get(rcmd_config_map, KeyOf(AllLines[i])) = Some(ValOf(AllLines[i]))

\* C4 amended: without a ## line, the trimmed key of every line with exactly
\* one `=` is in the table, and its lookup returns the trimmed value of the
\* last such line that has this trimmed key.
C4_EveryPairLineIsInTable ==
    (ppc = "done" /\ FirstComment = 0) =>
        \A i \in Pairs(Len(AllLines)) :
            LET k == KeyOf(AllLines[i])
                last == MaxOf({j \in Pairs(Len(AllLines)) : KeyOf(AllLines[j]) = k})
            IN  get(rcmd_config_map, k) = Some(ValOf(AllLines[last]))

\* a line whose key and value both needed trimming is in the table
C4_Witness ==
    /\ ppc = "done" /\ FirstComment = 0
    /\ \E i \in Pairs(Len(AllLines)) :
          LET l == AllLines[i]
              p == IndexFrom(l, EQ, 1)
          IN  /\ Take(l, p - 1) # KeyOf(l)
              /\ Drop(l, p) # ValOf(l)
              /\ get(rcmd_config_map, KeyOf(l)) = Some(ValOf(l))

\* C5: when a trimmed key occurs on several accepted lines before the comment
\* boundary, its lookup returns the value of the last of them, and the table
\* holds one entry per distinct key.
C5_LastWriteWins ==
    (ppc # "loop") =>
        /\ \A i, j \in Pairs(Boundary) :
              (i < j /\ KeyOf(AllLines[i]) = KeyOf(AllLines[j])
                     /\ \A h \in Pairs(Boundary) :
                           KeyOf(AllLines[h]) = KeyOf(AllLines[j]) => h <= j)
              => get(rcmd_config_map, KeyOf(AllLines[i])) = Some(ValOf(AllLines[j]))
        /\ Cardinality(DOMAIN rcmd_config_map)
              = Cardinality({KeyOf(AllLines[i]) : i \in Pairs(Boundary)})

\* two accepted lines with one key and different values were parsed
C5_Witness ==
    /\ ppc # "loop"
    /\ \E i, j \in Pairs(Boundary) :
          /\ i < j
          /\ KeyOf(AllLines[i]) = KeyOf(AllLines[j])
          /\ ValOf(AllLines[i]) # ValOf(AllLines[j])
          /\ get(rcmd_config_map, KeyOf(AllLines[i])) = Some(ValOf(AllLines[j]))

\* C9: a line before the comment boundary with zero or several `=` is
\* dropped: the step that consumes it leaves the table as it was and the
\* loop goes on with the next line.
C9_MalformedLineDropped ==
    [][(/\ ppc = "loop" /\ rest # <<>>
        /\ ~IsComment(Head(rest))
        /\ CountEq(Head(rest)) # 1)
       => (/\ rcmd_config_map' = rcmd_config_map
           /\ ppc' = "loop"
           /\ rest' = Tail(rest))]_vars

\* a line with several `=` and a line without `=` were passed over, and a
\* later line was still accepted
C9_Witness ==
    /\ ppc = "done"
    /\ \E i, j \in 1..Len(AllLines) :
          /\ i < j
          /\ CountEq(AllLines[i]) # 1
          /\ CountEq(AllLines[j]) = 1
          /\ DOMAIN rcmd_config_map = {KeyOf(AllLines[j])}
    /\ \E i \in 1..Len(AllLines) : CountEq(AllLines[i]) > 1

\* --------------------------------------------------- flag claims (SpecFlags)
\* positions of s where a whitespace-separated token starts
TokenStarts(s) ==
    {p \in 1..Len(s) : ~is_whitespace(s[p]) /\ (p = 1 \/ is_whitespace(s[p - 1]))}

\* the token of s that starts at p
TokenAt(s, p) ==
    LET ends == {q \in p..Len(s) : q = Len(s) \/ is_whitespace(s[q + 1])}
    IN  SubSeq(s, p, MinOf(ends))

\* the elements of a set of numbers in increasing order
RECURSIVE Ascending(_)
Ascending(S) ==
    IF S = {} THEN <<>> ELSE <<MinOf(S)>> \o Ascending(S \ {MinOf(S)})

\* the concatenation of a sequence of sequences
RECURSIVE Flatten(_)
Flatten(ss) == IF ss = <<>> THEN <<>> ELSE Head(ss) \o Flatten(Tail(ss))

\* every token, in input-string order then token order within a string
AllTokens ==
    Flatten([i \in DOMAIN strings |->
        [j \in DOMAIN Ascending(TokenStarts(strings[i])) |->
            TokenAt(strings[i], Ascending(TokenStarts(strings[i]))[j])]])

HasPrefix(tok, c) == Len(tok) >= 2 /\ tok[1] = "-" /\ tok[2] = c
IsPathToken(tok) == HasPrefix(tok, "L")
IsLibToken(tok) == HasPrefix(tok, "l")

Remainders(toks) == [i \in DOMAIN toks |-> SubSeq(toks[i], 3, Len(toks[i]))]

\* C6: the paths are the remainders of exactly the tokens starting with -L
\* and the libraries those of exactly the tokens starting with -l, in
\* input-string order then token order, duplicates kept, nothing sorted.
C6_SplitFlagsLists ==
    (fpc = "done") =>
        /\ paths = Remainders(SelectSeq(AllTokens, IsPathToken))
        /\ libs = Remainders(SelectSeq(AllTokens, IsLibToken))

\* two path tokens of one string came out in token order, the longer
\* remainder first, next to a token of neither kind
C6_Witness ==
    /\ fpc = "done"
    /\ Len(paths) = 2 /\ paths[1] # << >> /\ paths[2] = << >>
    /\ libs = << >>

\* ------------------------------------------- provider claims (Spec, SpecSeq)
\* caller t ran the function body itself in its current call
Computed(t) == out[t] # NoOutcome
\* caller t has built its map
Built(t) == Computed(t) /\ pc[t] \in {"store", "returned"}

ProbeKeys == {<< >>, <<"a">>, <<HASH>>, <<REPLACEMENT>>, <<"C", "C">>}

\* C1 (SpecSeq): with calls made one after another the command is launched
\* at most once, a cached table is never replaced, and every call returns a
\* table equal to the one the first call returned, whether that first
\* computation parsed an output or failed.
C1_SequentialCallsMemoized ==
    /\ launches <= 1
    /\ parses <= 1
    /\ \A t \in Threads :
          pc[t] = "returned" => (first_ret.some /\ ret[t] = first_ret.val)
    /\ first_ret.some => cache = first_ret

\* a later call got the cached table of a first computation that had failed
\* to launch: nothing was parsed and nothing was launched again
C1_Witness ==
    \E t \in Threads :
        /\ pc[t] = "returned" /\ ~Computed(t)
        /\ launches = 1 /\ parses = 0
        /\ ret[t] = EmptyMap
        /\ \E u \in Threads : calls[u] = MaxCalls

\* C2 (Spec): with concurrent callers the command is launched and its output
\* parsed at most once and every caller gets the same table.
C2_ConcurrentCallsComputeOnce ==
    /\ launches <= 1
    /\ parses <= 1
    /\ \A t \in Threads :
          pc[t] = "returned" => (first_ret.some /\ ret[t] = first_ret.val)

\* C7: a call whose launch failed with an io::Error comes back with an empty
\* table, on which every lookup is absent.
C7_LaunchFailureGivesEmptyTable ==
    \A t \in Threads :
        (Built(t) /\ ~out[t].launched) =>
            /\ r_map[t] = EmptyMap
            /\ printed[t] = << >>
            /\ (pc[t] = "returned" =>
                   /\ ret[t] = EmptyMap
                   /\ \A k \in ProbeKeys : get(ret[t], k) = None)

\* a call whose launch failed has returned
C7_Witness ==
    \E t \in Threads :
        /\ pc[t] = "returned" /\ Computed(t) /\ ~out[t].launched
        /\ get(ret[t], <<"a">>) = None

\* C8 as stated: a call whose command exited with a non-zero status comes
\* back with an empty table and without having parsed the output.
C8_NonZeroExitGivesEmptyTable ==
    \A t \in Threads :
        (Built(t) /\ out[t].launched /\ out[t].status # 0) =>
            r_map[t] = EmptyMap

\* C8 amended: the exit status is not looked at; a call whose command exited
\* with a non-zero status parses the standard-stream output and comes back
\* with the table of that output (empty when the output has no accepted line).
C8_ExitStatusIgnored ==
    \A t \in Threads :
        (Built(t) /\ out[t].launched /\ out[t].status # 0) =>
            /\ r_map[t] = ParseConfig(to_string_lossy(out[t].stdout))
            /\ parses >= 1
            /\ (pc[t] = "returned" => ret[t] = r_map[t])

\* a call whose command exited with status 1 returned a non-empty table
C8_Witness ==
    \E t \in Threads :
        /\ pc[t] = "returned" /\ Computed(t)
        /\ out[t].launched /\ out[t].status # 0
        /\ ret[t] # EmptyMap

\* C10: once the command has been launched, a line has been printed exactly
\* when the error stream is not empty, it has been printed by the time the
\* output is parsed, and the table built is the one the same output gives
\* with an empty error stream.
C10_StderrOnlyPrinted ==
    \A t \in Threads :
        (Computed(t) /\ out[t].launched) =>
            /\ (pc[t] \in {"match", "store", "returned"} =>
                   ((printed[t] # << >>) <=> (out[t].stderr # << >>)))
            /\ (pc[t] = "print" => printed[t] = << >>)
            /\ (pc[t] \in {"store", "returned"} =>
                   r_map[t] = build_map(r_cmd_config([out[t] EXCEPT !.stderr = << >>])))

\* a call printed the error stream and still built a non-empty table
C10_Witness ==
    \E t \in Threads :
        /\ pc[t] = "store"
        /\ out[t].stderr # << >>
        /\ printed[t] = << <<">", SP, "w", REPLACEMENT>> >>
        /\ r_map[t] # EmptyMap

====
